---- MODULE Spec2Model ----
(***************************************************************************)
(* Model of plaso/parsers/manager.py: the ParsersManager class.           *)
(*                                                                         *)
(* A string is a sequence of one-character strings, so that split, strip  *)
(* and lower are computed character by character.  An optional value is   *)
(* a sequence of length 0 (None) or 1 (the value).                         *)
(***************************************************************************)
EXTENDS Integers, Sequences, FiniteSets, TLC

VARIABLES parser_classes, parser_filter_string, call

vars == <<parser_classes, parser_filter_string, call>>

(* ---------------------------- bounds ----------------------------------- *)

\* longest filter string that is enumerated
MaxFilterLen == 4
\* longest list handed to RegisterParsers
MaxParserList == 2
\* most format specifications in a store handed to GetScanner
MaxStoreLen == 2

(* ----------------------- Python values and builtins --------------------- *)

None == <<>>

Some(v) == <<v>>

Range(s) == {s[i] : i \in 1..Len(s)}

\* the characters filter strings are built from
FilterChars == {"a", "B", ",", "-", " "}

LowerChar(c) ==
  CASE c = "A" -> "a"
    [] c = "B" -> "b"
    [] c = "P" -> "p"
    [] c = "X" -> "x"
    [] OTHER -> c

\* unicode.lower()
Lower(s) == [i \in 1..Len(s) |-> LowerChar(s[i])]

RECURSIVE LStrip(_)
LStrip(s) == IF Len(s) > 0 /\ s[1] = " " THEN LStrip(Tail(s)) ELSE s

RECURSIVE RStrip(_)
RStrip(s) ==
  IF Len(s) > 0 /\ s[Len(s)] = " " THEN RStrip(SubSeq(s, 1, Len(s) - 1)) ELSE s

\* unicode.strip()
Strip(s) == RStrip(LStrip(s))

\* unicode.split(sep): every piece between separators, empty pieces included
RECURSIVE Split(_, _)
Split(s, sep) ==
  IF \E i \in 1..Len(s) : s[i] = sep
    THEN LET i == CHOOSE k \in 1..Len(s) :
                    s[k] = sep /\ \A j \in 1..(k - 1) : s[j] # sep
         IN <<SubSeq(s, 1, i - 1)>> \o Split(SubSeq(s, i + 1, Len(s)), sep)
    ELSE <<s>>

\* unicode.startswith(u'-')
StartsWith(s, c) == Len(s) > 0 /\ s[1] = c

(* --------------------------- parser classes ----------------------------- *)

Signature(identifier, pattern, offset) ==
  [identifier |-> identifier, pattern |-> pattern, offset |-> offset]

FormatSpecification(identifier, signatures) ==
  [identifier |-> identifier, signatures |-> signatures]

ParserClass(name, plugin_names, format_specification) ==
  [NAME |-> name, plugin_names |-> plugin_names,
   format_specification |-> format_specification]

\* a parser without plugins and without a format specification
ParserA == ParserClass(<<"a">>, None, None)

\* a parser whose name differs from ParserA's in letter case only
ParserUpperA ==
  ParserClass(<<"A">>, None,
    Some(FormatSpecification(<<"a">>,
      << Signature("a:0", "PK", Some(-4)), Signature("a:1", "MZ", Some(10)) >>)))

\* a parser with plugins, whose format specification has no signature
ParserB ==
  ParserClass(<<"B">>, Some(<< <<"a">>, <<"P">> >>),
    Some(FormatSpecification(<<"b">>, <<>>)))

\* a parser with an empty plugin list and unanchored and offset-0 signatures
ParserLowerB ==
  ParserClass(<<"b">>, Some(<<>>),
    Some(FormatSpecification(<<"b">>,
      << Signature("b:0", "PK", None), Signature("b:1", "MZ", Some(0)) >>)))

\* a parser with a two-letter name, no plugins and no format specification
ParserAA == ParserClass(<<"a", "a">>, None, None)

ParserClasses == {ParserA, ParserUpperA, ParserB, ParserLowerB, ParserAA}

SupportsPlugins(parser_class) == parser_class.plugin_names # None

GetPluginNames(parser_class) == parser_class.plugin_names[1]

GetFormatSpecification(parser_class) == parser_class.format_specification

\* every content _parser_classes can have: keys are the lower-cased NAMEs
Registries ==
  LET keys == {Lower(c.NAME) : c \in ParserClasses}
  IN {r \in UNION {[d -> ParserClasses] : d \in SUBSET keys} :
        \A k \in DOMAIN r : Lower(r[k].NAME) = k}

\* presets.categories
categories == (<<"a">> :> << <<"b">>, <<"X">> >>)

\* presets.GetParsersFromCategory
GetParsersFromCategory(category) ==
  IF category \in DOMAIN categories THEN categories[category] ELSE <<>>

(* ----------------------------- exceptions ------------------------------- *)

KeyErrorAlreadySet == <<"KeyError", "Parser class already set for name">>

KeyErrorNotSet == <<"KeyError", "Parser class not set for name">>

AttributeErrorNoSplit == <<"AttributeError", "'NoneType' object has no attribute 'split'">>

(* --------------------------- registry mutation -------------------------- *)

\* the outcome of one call: the class attribute afterwards and what was raised
Outcome(classes, raised) == [classes |-> classes, raised |-> raised]

DeregisterParserBuggy(classes, parser_class) ==
  LET parser_name == Lower(parser_class.NAME)
  IN Outcome([k \in DOMAIN classes \ {parser_name} |-> classes[k]], None)

DeregisterParser(classes, parser_class) ==
  LET parser_name == Lower(parser_class.NAME)
  IN IF parser_name \notin DOMAIN classes
       THEN Outcome(classes, KeyErrorNotSet)
       ELSE Outcome([k \in DOMAIN classes \ {parser_name} |-> classes[k]], None)

RegisterParserBuggy(classes, parser_class) ==
  LET parser_name == parser_class.NAME
  IN IF parser_name \in DOMAIN classes
       THEN Outcome(classes, KeyErrorAlreadySet)
       ELSE Outcome([k \in DOMAIN classes \cup {parser_name} |->
                       IF k = parser_name THEN parser_class ELSE classes[k]], None)

RegisterParser(classes, parser_class) ==
  LET parser_name == Lower(parser_class.NAME)
  IN IF parser_name \in DOMAIN classes
       THEN Outcome(classes, KeyErrorAlreadySet)
       ELSE Outcome([k \in DOMAIN classes \cup {parser_name} |->
                       IF k = parser_name THEN parser_class ELSE classes[k]], None)

RECURSIVE RegisterParsersBuggy(_, _)
RegisterParsersBuggy(classes, parser_classes_list) ==
  IF parser_classes_list = <<>>
    THEN Outcome(classes, None)
    ELSE LET one == RegisterParser(classes, Head(parser_classes_list))
             rest == RegisterParsersBuggy(one.classes, Tail(parser_classes_list))
         IN IF one.raised # None THEN Outcome(rest.classes, one.raised) ELSE rest

RECURSIVE RegisterParsers(_, _)
RegisterParsers(classes, parser_classes_list) ==
  IF parser_classes_list = <<>>
    THEN Outcome(classes, None)
    ELSE LET one == RegisterParser(classes, Head(parser_classes_list))
         IN IF one.raised # None
              THEN one
              ELSE RegisterParsers(one.classes, Tail(parser_classes_list))

(* ---------------------------- filter resolution ------------------------ *)

\* the preset category is looked up before the registered parsers
ActiveNamesPresetFirst(classes, filter_string) ==
  IF filter_string \in DOMAIN categories
    THEN GetParsersFromCategory(filter_string)
    ELSE IF filter_string \in DOMAIN classes
      THEN <<filter_string>> \o
           (IF SupportsPlugins(classes[filter_string])
              THEN GetPluginNames(classes[filter_string])
              ELSE <<>>)
      ELSE <<filter_string>>

\* the names one lower-cased filter appends to the active list
ActiveNames(classes, filter_string) ==
  IF filter_string \in DOMAIN classes
    THEN <<filter_string>> \o
         (IF SupportsPlugins(classes[filter_string])
            THEN GetPluginNames(classes[filter_string])
            ELSE <<>>)
    ELSE IF filter_string \in DOMAIN categories
      THEN GetParsersFromCategory(filter_string)
      ELSE <<filter_string>>

\* the for loop over the pieces of the split filter string
RECURSIVE FilterLoop(_, _, _, _)
FilterLoop(classes, pieces, includes, excludes) ==
  IF pieces = <<>>
    THEN <<includes, excludes>>
    ELSE LET filter_string == Strip(Head(pieces))
         IN IF filter_string = <<>>
              THEN FilterLoop(classes, Tail(pieces), includes, excludes)
              ELSE IF StartsWith(filter_string, "-")
                THEN FilterLoop(classes, Tail(pieces), includes,
                       excludes \o ActiveNames(classes, Lower(Tail(filter_string))))
                ELSE FilterLoop(classes, Tail(pieces),
                       includes \o ActiveNames(classes, Lower(filter_string)),
                       excludes)

\* what the call returns and what it raises
Result(ret, raised) == [ret |-> ret, raised |-> raised]

\* a filter that names neither a parser nor a preset is an error
GetFilterListsFromStringStrict(classes, filter_string) ==
  IF filter_string = None
    THEN Result(None, AttributeErrorNoSplit)
    ELSE LET lists == FilterLoop(classes, Split(filter_string[1], ","), <<>>, <<>>)
         IN IF \E n \in Range(lists[1]) \cup Range(lists[2]) :
                 n \notin DOMAIN classes /\ n \notin DOMAIN categories
              THEN Result(<<None, None>>, KeyErrorNotSet)
              ELSE Result(lists, None)

GetFilterListsFromString(classes, filter_string) ==
  IF filter_string = None
    THEN Result(None, AttributeErrorNoSplit)
    ELSE Result(FilterLoop(classes, Split(filter_string[1], ","), <<>>, <<>>), None)

(* ------------------------------ selection ------------------------------- *)

\* the orders in which iteritems() may walk the dictionary
IterOrders(classes) ==
  {o \in [1..Cardinality(DOMAIN classes) -> DOMAIN classes] :
     \A i, j \in DOMAIN o : i # j => o[i] # o[j]}

\* a name in includes is yielded even when it is in excludes
GetParsersIncludesWin(classes, filter_string, order) ==
  LET filtered == filter_string # None /\ filter_string[1] # <<>>
      lists == IF filtered
                 THEN GetFilterListsFromString(classes, filter_string).ret
                 ELSE <<None, None>>
      includes == lists[1]
      excludes == lists[2]
      Yielded(parser_name) ==
        /\ ~(excludes # None /\ parser_name \in Range(excludes)
               /\ parser_name \notin Range(includes))
        /\ ~(includes # None /\ parser_name \notin Range(includes))
      names == SelectSeq(order, Yielded)
  IN [i \in 1..Len(names) |-> <<names[i], classes[names[i]]>>]

\* the filter is not applied
GetParsersUnfiltered(classes, filter_string, order) ==
  [i \in 1..Len(order) |-> <<order[i], classes[order[i]]>>]

\* the sequence of (parser_name, parser_class) the generator yields
GetParsers(classes, filter_string, order) ==
  LET filtered == filter_string # None /\ filter_string[1] # <<>>
      lists == IF filtered
                 THEN GetFilterListsFromString(classes, filter_string).ret
                 ELSE <<None, None>>
      includes == lists[1]
      excludes == lists[2]
      Yielded(parser_name) ==
        /\ ~(excludes # None /\ parser_name \in Range(excludes))
        /\ ~(includes # None /\ parser_name \notin Range(includes))
      names == SelectSeq(order, Yielded)
  IN [i \in 1..Len(names) |-> <<names[i], classes[names[i]]>>]

(* -------------------------- specification store ------------------------- *)

\* FormatSpecificationStore(): no specification yet
FormatSpecificationStore == <<>>

\* FormatSpecificationStore.AddSpecification
AddSpecification(specification_store, format_specification) ==
  Append(specification_store, format_specification)

\* a format specification without signatures is dropped
RECURSIVE StoreLoopNonTrivial(_, _, _)
StoreLoopNonTrivial(parsers, specification_store, remainder_list) ==
  IF parsers = <<>>
    THEN <<specification_store, remainder_list>>
    ELSE LET parser_name == Head(parsers)[1]
             format_specification == GetFormatSpecification(Head(parsers)[2])
         IN IF format_specification # None
              THEN StoreLoopNonTrivial(Tail(parsers),
                     IF format_specification[1].signatures # <<>>
                       THEN AddSpecification(specification_store,
                                             format_specification[1])
                       ELSE specification_store,
                     remainder_list)
              ELSE StoreLoopNonTrivial(Tail(parsers), specification_store,
                     Append(remainder_list, parser_name))

\* the for loop over the selected parsers
RECURSIVE StoreLoop(_, _, _)
StoreLoop(parsers, specification_store, remainder_list) ==
  IF parsers = <<>>
    THEN <<specification_store, remainder_list>>
    ELSE LET parser_name == Head(parsers)[1]
             format_specification == GetFormatSpecification(Head(parsers)[2])
         IN IF format_specification # None
              THEN StoreLoop(Tail(parsers),
                     AddSpecification(specification_store, format_specification[1]),
                     remainder_list)
              ELSE StoreLoop(Tail(parsers), specification_store,
                     Append(remainder_list, parser_name))

GetSpecificationStore(classes, filter_string, order) ==
  StoreLoop(GetParsers(classes, filter_string, order), FormatSpecificationStore, <<>>)

(* -------------------------------- scanner ------------------------------- *)

\* pysigscan.scanner.add_signature
AddSignature(scanner_object, identifier, pattern_offset, pattern, signature_flags) ==
  Append(scanner_object,
    [identifier |-> identifier, pattern_offset |-> pattern_offset,
     pattern |-> pattern, signature_flags |-> signature_flags])

\* offset 0 is taken as relative from the end
ScanSignatureZeroFromEnd(scanner_object, signature) ==
  IF signature.offset = None
    THEN AddSignature(scanner_object, signature.identifier, None,
                      signature.pattern, "NO_OFFSET")
    ELSE IF signature.offset[1] <= 0
      THEN AddSignature(scanner_object, signature.identifier,
                        Some(signature.offset[1] * (-1)),
                        signature.pattern, "RELATIVE_FROM_END")
      ELSE AddSignature(scanner_object, signature.identifier, signature.offset,
                        signature.pattern, "RELATIVE_FROM_START")

\* the body of the inner for loop, for one signature
ScanSignature(scanner_object, signature) ==
  IF signature.offset = None
    THEN AddSignature(scanner_object, signature.identifier, None,
                      signature.pattern, "NO_OFFSET")
    ELSE IF signature.offset[1] < 0
      THEN AddSignature(scanner_object, signature.identifier,
                        Some(signature.offset[1] * (-1)),
                        signature.pattern, "RELATIVE_FROM_END")
      ELSE AddSignature(scanner_object, signature.identifier, signature.offset,
                        signature.pattern, "RELATIVE_FROM_START")

RECURSIVE ScanSignatures(_, _)
ScanSignatures(scanner_object, signatures) ==
  IF signatures = <<>>
    THEN scanner_object
    ELSE ScanSignatures(ScanSignature(scanner_object, Head(signatures)),
                        Tail(signatures))

RECURSIVE ScanSpecifications(_, _)
ScanSpecifications(scanner_object, specifications) ==
  IF specifications = <<>>
    THEN scanner_object
    ELSE ScanSpecifications(
           ScanSignatures(scanner_object, Head(specifications).signatures),
           Tail(specifications))

GetScanner(specification_store) == ScanSpecifications(<<>>, specification_store)

(* ------------------------------- inputs --------------------------------- *)

\* the strings a caller may pass as parser_filter_string
FilterStrings == UNION {[1..n -> FilterChars] : n \in 0..MaxFilterLen}

\* the lists a caller may pass to RegisterParsers
ParserClassLists == UNION {[1..n -> ParserClasses] : n \in 0..MaxParserList}

\* the stores a caller may pass to GetScanner
SpecificationStores ==
  LET specifications ==
        {GetFormatSpecification(c)[1] :
           c \in {p \in ParserClasses : GetFormatSpecification(p) # None}}
  IN {s \in UNION {[1..n -> specifications] : n \in 0..MaxStoreLen} :
        \A i, j \in DOMAIN s : i # j => s[i] # s[j]}

(* ------------------------------- actions -------------------------------- *)

\* the record of the last call: its name, argument, return value and exception
Call(op, arg, ret, raised) == [op |-> op, arg |-> arg, ret |-> ret, raised |-> raised]

CallRegisterParser ==
  \E parser_class \in ParserClasses :
    LET outcome == RegisterParser(parser_classes, parser_class)
    IN /\ parser_classes' = outcome.classes
       /\ call' = Call("RegisterParser", parser_class, None, outcome.raised)
       /\ UNCHANGED parser_filter_string

CallDeregisterParser ==
  \E parser_class \in ParserClasses :
    LET outcome == DeregisterParser(parser_classes, parser_class)
    IN /\ parser_classes' = outcome.classes
       /\ call' = Call("DeregisterParser", parser_class, None, outcome.raised)
       /\ UNCHANGED parser_filter_string

CallRegisterParsers ==
  \E parser_classes_list \in ParserClassLists :
    LET outcome == RegisterParsers(parser_classes, parser_classes_list)
    IN /\ parser_classes' = outcome.classes
       /\ call' = Call("RegisterParsers", parser_classes_list, None, outcome.raised)
       /\ UNCHANGED parser_filter_string

CallGetScanner ==
  \E specification_store \in SpecificationStores :
    /\ call' = Call("GetScanner", specification_store,
                    GetScanner(specification_store), None)
    /\ UNCHANGED <<parser_classes, parser_filter_string>>

CallGetFilterListsFromString ==
  LET result == GetFilterListsFromString(parser_classes, parser_filter_string)
  IN /\ call' = Call("GetFilterListsFromString", parser_filter_string,
                     result.ret, result.raised)
     /\ UNCHANGED <<parser_classes, parser_filter_string>>

CallGetParsers ==
  \E order \in IterOrders(parser_classes) :
    /\ call' = Call("GetParsers", parser_filter_string,
                    GetParsers(parser_classes, parser_filter_string, order), None)
    /\ UNCHANGED <<parser_classes, parser_filter_string>>

CallGetSpecificationStore ==
  \E order \in IterOrders(parser_classes) :
    /\ call' = Call("GetSpecificationStore", parser_filter_string,
                    GetSpecificationStore(parser_classes, parser_filter_string, order),
                    None)
    /\ UNCHANGED <<parser_classes, parser_filter_string>>

NoCall == Call("", None, None, None)

\* the registry from its empty start, under registration and deregistration
Init ==
  /\ parser_classes = [k \in {} |-> ParserA]
  /\ parser_filter_string = None
  /\ call = NoCall

Next ==
  \/ CallRegisterParser
  \/ CallDeregisterParser
  \/ CallRegisterParsers
  \/ CallGetScanner

Spec == Init /\ [][Next]_vars

\* the queries, for every content of the registry and every filter string
InitQuery ==
  /\ parser_classes \in Registries
  /\ parser_filter_string \in {None} \cup {Some(s) : s \in FilterStrings}
  /\ call = NoCall

NextQuery ==
  \/ CallGetFilterListsFromString
  \/ CallGetParsers
  \/ CallGetSpecificationStore

SpecQuery == InitQuery /\ [][NextQuery]_vars

\* every registry the mutations reach is one the queries are checked on
RegistryInv == parser_classes \in Registries

(* ------------------------------ properties ------------------------------ *)

\* the (includes, excludes) the filter string of this state resolves to
ResolvedFilter == GetFilterListsFromString(parser_classes, parser_filter_string).ret

\* the filter string is empty or absent
NoFilter == parser_filter_string = None \/ parser_filter_string = Some(<<>>)

\* the registered names the selector has to yield for the filter of this state
SelectedNames ==
  IF NoFilter
    THEN DOMAIN parser_classes
    ELSE {n \in DOMAIN parser_classes :
            /\ n \notin Range(ResolvedFilter[2])
            /\ (ResolvedFilter[1] # <<>> => n \in Range(ResolvedFilter[1]))}

\* C1: GetParsers yields exactly the registered (name, class) pairs that the
\* filter selects, each once: all of them for an empty or absent filter, else
\* those not in excludes and, when includes is non-empty, in includes; a name
\* in both lists is never yielded.
C1_SelectParsers ==
  call.op = "GetParsers" =>
    /\ Range(call.ret) = {<<n, parser_classes[n]>> : n \in SelectedNames}
    /\ Len(call.ret) = Cardinality(SelectedNames)
    /\ ~NoFilter =>
         \A i \in 1..Len(call.ret) :
           ~(/\ call.ret[i][1] \in Range(ResolvedFilter[1])
             /\ call.ret[i][1] \in Range(ResolvedFilter[2]))

\* a registered name is in includes and in excludes, and another one is yielded
C1_Witness ==
  /\ call.op = "GetParsers"
  /\ ~NoFilter
  /\ \E n \in DOMAIN parser_classes :
       n \in Range(ResolvedFilter[1]) /\ n \in Range(ResolvedFilter[2])
  /\ Len(call.ret) >= 1

\* the tokens of a filter string: the pieces between commas, trimmed, non-empty
TokensOf(s) ==
  LET pieces == Split(s, ",")
      NonEmpty(p) == p # <<>>
  IN SelectSeq([i \in 1..Len(pieces) |-> Strip(pieces[i])], NonEmpty)

TokenIsExclude(token) == token[1] = "-"

TokenName(token) == Lower(IF TokenIsExclude(token) THEN Tail(token) ELSE token)

\* what one token stands for, by first match: parser, preset category, literal
ExpansionOf(name) ==
  IF name \in DOMAIN parser_classes
    THEN IF SupportsPlugins(parser_classes[name])
           THEN <<name>> \o GetPluginNames(parser_classes[name])
           ELSE <<name>>
    ELSE IF name \in DOMAIN categories
      THEN categories[name]
      ELSE <<name>>

RECURSIVE Flatten(_)
Flatten(ss) == IF ss = <<>> THEN <<>> ELSE Head(ss) \o Flatten(Tail(ss))

\* the list the tokens of one polarity resolve to, in first-seen order
ListOf(s, exclude) ==
  LET Targets(token) == TokenIsExclude(token) = exclude
      tokens == SelectSeq(TokensOf(s), Targets)
  IN Flatten([i \in 1..Len(tokens) |-> ExpansionOf(TokenName(tokens[i]))])

\* C2: the resolved lists are the concatenation, token by token and in order,
\* of: the parser name followed by its plugin names for a registered parser;
\* else the catalog's parser names for a preset category; else the token itself.
C2_FilterResolution ==
  (call.op = "GetFilterListsFromString" /\ call.raised = None) =>
    call.ret = <<ListOf(call.arg[1], FALSE), ListOf(call.arg[1], TRUE)>>

\* "a" is a parser and a category and resolves as the parser; "-B" expands the
\* plugins of b into excludes
C2_Witness ==
  /\ call.op = "GetFilterListsFromString"
  /\ <<"a">> \in DOMAIN parser_classes
  /\ <<"a">> \in DOMAIN categories
  /\ call.ret = << << <<"a">> >>, << <<"b">>, <<"a">>, <<"P">> >> >>

\* the spellings of a lower-case name in any letter case
CaseVariants(name) ==
  {s \in [1..Len(name) -> {"a", "A", "b", "B"}] : Lower(s) = name}

\* C3: registering under a new lower-cased name adds exactly that entry and the
\* name is then found in any letter case; under a name already present the
\* call raises and the registry keeps the first class.
C3_Register ==
  [][call'.op = "RegisterParser" =>
       LET parser_class == call'.arg
           name == Lower(parser_class.NAME)
       IN IF name \notin DOMAIN parser_classes
            THEN /\ call'.raised = None
                 /\ DOMAIN parser_classes' = DOMAIN parser_classes \cup {name}
                 /\ \A k \in DOMAIN parser_classes :
                      parser_classes'[k] = parser_classes[k]
                 /\ \A n \in CaseVariants(name) :
                      /\ Lower(n) \in DOMAIN parser_classes'
                      /\ parser_classes'[Lower(n)] = parser_class
            ELSE /\ call'.raised = KeyErrorAlreadySet
                 /\ parser_classes' = parser_classes
                 /\ parser_classes'[name] = parser_classes[name]]_vars

\* a class was refused whose name differs in letter case from the registered one
C3_Witness ==
  /\ call.op = "RegisterParser"
  /\ call.raised = KeyErrorAlreadySet
  /\ call.arg.NAME # parser_classes[Lower(call.arg.NAME)].NAME
  /\ Lower(call.arg.NAME) = Lower(parser_classes[Lower(call.arg.NAME)].NAME)

\* C4: deregistering a present name removes exactly that entry, and the name is
\* then found in no letter case; deregistering an absent name raises and
\* changes nothing, so a second deregistration in a row always raises.
C4_Deregister ==
  [][call'.op = "DeregisterParser" =>
       LET name == Lower(call'.arg.NAME)
       IN /\ IF name \in DOMAIN parser_classes
               THEN /\ call'.raised = None
                    /\ DOMAIN parser_classes' = DOMAIN parser_classes \ {name}
                    /\ \A k \in DOMAIN parser_classes' :
                         parser_classes'[k] = parser_classes[k]
                    /\ \A n \in CaseVariants(name) :
                         Lower(n) \notin DOMAIN parser_classes'
               ELSE /\ call'.raised = KeyErrorNotSet
                    /\ parser_classes' = parser_classes
          /\ (call.op = "DeregisterParser" /\ Lower(call.arg.NAME) = name) =>
               call'.raised = KeyErrorNotSet]_vars

\* a parser was removed and another one is still registered
C4_Witness ==
  /\ call.op = "DeregisterParser"
  /\ call.raised = None
  /\ DOMAIN parser_classes # {}
  /\ Lower(call.arg.NAME) \notin DOMAIN parser_classes

\* C5: RegisterParsers registers the list in order up to the first class whose
\* lower-cased name is registered already or occurs earlier in the list; it
\* then raises, keeps the classes before that position and registers none at
\* or after it; without a collision it registers them all.
C5_RegisterAll ==
  [][call'.op = "RegisterParsers" =>
       LET list == call'.arg
           Collides(i) ==
             \/ Lower(list[i].NAME) \in DOMAIN parser_classes
             \/ \E j \in 1..(i - 1) : Lower(list[j].NAME) = Lower(list[i].NAME)
           colliding == {i \in 1..Len(list) : Collides(i)}
           stop == IF colliding = {}
                     THEN Len(list) + 1
                     ELSE CHOOSE i \in colliding : \A j \in colliding : i <= j
       IN /\ call'.raised = IF colliding = {} THEN None ELSE KeyErrorAlreadySet
          /\ DOMAIN parser_classes' =
               DOMAIN parser_classes \cup {Lower(list[i].NAME) : i \in 1..(stop - 1)}
          /\ \A i \in 1..(stop - 1) : parser_classes'[Lower(list[i].NAME)] = list[i]
          /\ \A k \in DOMAIN parser_classes :
               parser_classes'[k] = parser_classes[k]]_vars

\* the second class of the list collided with the first one, in letter case
\* only: the call raised and the first class stays registered
C5_Witness ==
  /\ call.op = "RegisterParsers"
  /\ call.raised = KeyErrorAlreadySet
  /\ Len(call.arg) = 2
  /\ call.arg[2].NAME # call.arg[1].NAME
  /\ Lower(call.arg[2].NAME) = Lower(call.arg[1].NAME)
  /\ DOMAIN parser_classes = {Lower(call.arg[1].NAME)}
  /\ parser_classes[Lower(call.arg[1].NAME)] = call.arg[1]

\* the scanner rule a signature has to be emitted as
RuleOf(signature) ==
  [identifier |-> signature.identifier,
   pattern |-> signature.pattern,
   pattern_offset |->
     IF signature.offset = None
       THEN None
       ELSE Some(IF signature.offset[1] < 0
                   THEN 0 - signature.offset[1]
                   ELSE signature.offset[1]),
   signature_flags |->
     IF signature.offset = None
       THEN "NO_OFFSET"
       ELSE IF signature.offset[1] < 0
         THEN "RELATIVE_FROM_END"
         ELSE "RELATIVE_FROM_START"]

\* the signatures of a store, each by its position
SignaturesOf(store) ==
  UNION {{<<i, j>> : j \in 1..Len(store[i].signatures)} : i \in 1..Len(store)}

\* C6: GetScanner adds one rule per signature of the store, none missing and
\* none twice; the rule has the signature's identifier and pattern, NO_OFFSET
\* and the offset unchanged for no offset, RELATIVE_FROM_END and the absolute
\* value for a negative offset, RELATIVE_FROM_START and the offset otherwise;
\* no emitted offset is negative.
C6_ScannerConfig ==
  call.op = "GetScanner" =>
    LET store == call.arg
        rules == call.ret
        SignatureAt(p) == store[p[1]].signatures[p[2]]
    IN /\ Len(rules) = Cardinality(SignaturesOf(store))
       /\ \A p \in SignaturesOf(store) :
            Cardinality({k \in 1..Len(rules) : rules[k] = RuleOf(SignatureAt(p))}) =
            Cardinality({q \in SignaturesOf(store) :
                           RuleOf(SignatureAt(q)) = RuleOf(SignatureAt(p))})
       /\ \A k \in 1..Len(rules) :
            rules[k].pattern_offset # None => rules[k].pattern_offset[1] >= 0

\* two parsers' signatures share a pattern and both are emitted; the rules
\* cover an end-relative offset, offset 0 and no offset
C6_Witness ==
  /\ call.op = "GetScanner"
  /\ \E i, j \in 1..Len(call.ret) :
       /\ call.ret[i].pattern = call.ret[j].pattern
       /\ call.ret[i].identifier # call.ret[j].identifier
  /\ \E i \in 1..Len(call.ret) :
       /\ call.ret[i].signature_flags = "RELATIVE_FROM_END"
       /\ call.ret[i].pattern_offset = Some(4)
  /\ \E i \in 1..Len(call.ret) :
       /\ call.ret[i].signature_flags = "RELATIVE_FROM_START"
       /\ call.ret[i].pattern_offset = Some(0)
  /\ \E i \in 1..Len(call.ret) :
       /\ call.ret[i].signature_flags = "NO_OFFSET"
       /\ call.ret[i].pattern_offset = None

\* the format specification of a registered parser is in the returned store
InStore(n) ==
  /\ GetFormatSpecification(parser_classes[n]) # None
  /\ GetFormatSpecification(parser_classes[n])[1] \in Range(call.ret[1])

\* the name of a registered parser is in the returned remainder list
InRemainder(n) == n \in Range(call.ret[2])

\* C7: the store and the remainder list partition the selected parsers: each
\* selected parser is in exactly one of them, an unselected parser in neither.
C7_Partition ==
  call.op = "GetSpecificationStore" =>
    \A n \in DOMAIN parser_classes :
      IF n \in SelectedNames
        THEN InStore(n) # InRemainder(n)
        ELSE ~InStore(n) /\ ~InRemainder(n)

\* one selected parser is in the store, one in the remainder, one is unselected
C7_Witness ==
  /\ call.op = "GetSpecificationStore"
  /\ \E n \in SelectedNames : InStore(n)
  /\ \E n \in SelectedNames : InRemainder(n)
  /\ \E n \in DOMAIN parser_classes : n \notin SelectedNames

\* C8 as stated: every format specification in the returned store has at least
\* one signature, and a parser without format specification is in the remainder.
C8_StoreNonTrivial ==
  call.op = "GetSpecificationStore" =>
    /\ \A i \in 1..Len(call.ret[1]) : Len(call.ret[1][i].signatures) >= 1
    /\ \A n \in SelectedNames :
         GetFormatSpecification(parser_classes[n]) = None => InRemainder(n)

\* C8 amended: the store holds the format specification of every selected
\* parser that reports one, whatever its number of signatures, and nothing
\* else; the remainder holds the names of the selected parsers that report none.
C8_StoreWhenPresent ==
  call.op = "GetSpecificationStore" =>
    LET reporting ==
          {n \in SelectedNames : GetFormatSpecification(parser_classes[n]) # None}
    IN /\ Range(call.ret[1]) =
            {GetFormatSpecification(parser_classes[n])[1] : n \in reporting}
       /\ Len(call.ret[1]) = Cardinality(reporting)
       /\ Range(call.ret[2]) = SelectedNames \ reporting
       /\ Len(call.ret[2]) = Cardinality(SelectedNames \ reporting)

\* the store holds a format specification without signatures
C8_Witness ==
  /\ call.op = "GetSpecificationStore"
  /\ \E i \in 1..Len(call.ret[1]) : call.ret[1][i].signatures = <<>>
  /\ Len(call.ret[2]) >= 1

\* C9 as stated: every name in the returned includes and excludes is lower-case.
C9_AllLowerCase ==
  (call.op = "GetFilterListsFromString" /\ call.raised = None) =>
    \A n \in Range(call.ret[1]) \cup Range(call.ret[2]) : n = Lower(n)

\* C10 as stated: filter resolution raises nothing, whatever its input, the
\* absent string included.
C10_NeverFails ==
  call.op = "GetFilterListsFromString" => call.raised = None

\* C10 amended: for every filter string that is present the resolver returns
\* the two lists, raises nothing, leaves the registry as it was and returns a
\* token that names no parser and no preset as a literal name of its list; for
\* an absent string it raises AttributeError and returns nothing.
C10_NeverFailsOnStrings ==
  [][call'.op = "GetFilterListsFromString" =>
       /\ parser_classes' = parser_classes
       /\ IF call'.arg = None
            THEN call'.raised = AttributeErrorNoSplit
            ELSE /\ call'.raised = None
                 /\ Len(call'.ret) = 2
                 /\ \A i \in 1..Len(TokensOf(call'.arg[1])) :
                      LET token == TokensOf(call'.arg[1])[i]
                          name == TokenName(token)
                      IN (name \notin DOMAIN parser_classes
                            /\ name \notin DOMAIN categories) =>
                           name \in Range(call'.ret[IF TokenIsExclude(token)
                                                      THEN 2 ELSE 1])]_vars

\* a lone negation marker resolved to the empty name, excluded
C10_Witness ==
  /\ call.op = "GetFilterListsFromString"
  /\ call.arg = Some(<<"-">>)
  /\ call.raised = None
  /\ call.ret = << <<>>, << <<>> >> >>

====
